---- MODULE Spec2Model ----
(***************************************************************************)
(* Model of html_editor's tag tokenizer (src/parse/token.rs) and of its    *)
(* serializer (src/operation/html.rs).                                     *)
(*                                                                         *)
(* A Rust String is modelled as the sequence of its UTF-8 bytes.  Every    *)
(* ASCII character is one byte, written as a one-character TLA+ string.    *)
(* The two-byte character U+00E9 is the byte pair <<"C3", "A9">>: "C3" is  *)
(* its lead byte and "A9" its continuation byte.  Slicing (tag[a..b]) is   *)
(* by byte offset and aborts on inverted or out-of-range bounds and on an  *)
(* offset that is no character boundary; chars() iterates characters.      *)
(***************************************************************************)
EXTENDS Integers, Sequences, FiniteSets, TLC

VARIABLES pc, op, tag, result, token, node, element, nodes, html

vars == <<pc, op, tag, result, token, node, element, nodes, html>>

\* ------------------------------------------------------------------ bounds

\* Number of body pieces between a tag's prefix and its suffix.
MaxBody == 3
\* Longest children list of a generated Element and longest Vec<Node>.
MaxChildren == 2
\* Longest attribute list of a generated Element or Token.
MaxAttrs == 2

\* ----------------------------------------------------------- string model

\* The continuation byte of the two-byte character.
IsCont(b) == b = "A9"

\* str::is_char_boundary
IsCharBoundary(s, i) ==
    \/ i = 0
    \/ i = Len(s)
    \/ (i > 0 /\ i < Len(s) /\ ~IsCont(s[i + 1]))

\* Whether the slice s[a..b] (byte offsets, 0-based, b exclusive) is defined;
\* otherwise the index operation panics.
SliceOk(s, a, b) ==
    /\ a >= 0
    /\ a <= b
    /\ b <= Len(s)
    /\ IsCharBoundary(s, a)
    /\ IsCharBoundary(s, b)

\* s[a..b]
Slice(s, a, b) == SubSeq(s, a + 1, b)

\* str::chars: one entry per character, named by its first byte.
Chars(s) == SelectSeq(s, LAMBDA b : ~IsCont(b))

\* Iterator::position with a predicate "is one of S": the 0-based index of
\* the first character in S, or -1 for None.
Position(cs, S) ==
    IF \E i \in 1..Len(cs) : cs[i] \in S
    THEN (CHOOSE i \in 1..Len(cs) : cs[i] \in S /\ \A j \in 1..(i - 1) : cs[j] \notin S) - 1
    ELSE -1

\* Iterator::position with a predicate "is none of S".
PositionNot(cs, S) ==
    IF \E i \in 1..Len(cs) : cs[i] \notin S
    THEN (CHOOSE i \in 1..Len(cs) : cs[i] \notin S /\ \A j \in 1..(i - 1) : cs[j] \in S) - 1
    ELSE -1

starts_with(s, p) == Len(s) >= Len(p) /\ SubSeq(s, 1, Len(p)) = p

ends_with(s, p) == Len(s) >= Len(p) /\ SubSeq(s, Len(s) - Len(p) + 1, Len(s)) = p

\* char::is_ascii_whitespace: U+0020, U+0009, U+000A, U+000C, U+000D.
AsciiWhitespace == {" ", "\t", "\n", "\f", "\r"}

\* char::is_whitespace (the White_Space property), on the model's alphabet.
Whitespace == {" ", "\t", "\n", "\f", "\r"}

is_whitespace(c) == c \in Whitespace

\* The ' ' of the self-closing branch's closures.
Space == {" "}

RECURSIVE trim_start(_)
trim_start(s) ==
    IF s # <<>> /\ is_whitespace(Head(s)) THEN trim_start(Tail(s)) ELSE s

RECURSIVE trim_end(_)
trim_end(s) ==
    IF s # <<>> /\ is_whitespace(s[Len(s)])
    THEN trim_end(SubSeq(s, 1, Len(s) - 1))
    ELSE s

\* str::trim
trim(s) == trim_end(trim_start(s))

\* ------------------------------------------------------ attribute parser

\* Index of the first position >= i of s whose byte is in S, or Len(s) + 1
\* when there is none.
ScanTo(s, i, S) ==
    IF \E j \in i..Len(s) : s[j] \in S
    THEN CHOOSE j \in i..Len(s) : s[j] \in S /\ \A k \in i..(j - 1) : s[k] \notin S
    ELSE Len(s) + 1

\* Index of the first position >= i of s whose byte is not in S, or
\* Len(s) + 1 when there is none.
ScanPast(s, i, S) ==
    IF \E j \in i..Len(s) : s[j] \notin S
    THEN CHOOSE j \in i..Len(s) : s[j] \notin S /\ \A k \in i..(j - 1) : s[k] \in S
    ELSE Len(s) + 1

KeyEnd == Whitespace \cup {"="}

Quotes == {"\"", "'"}

\* attrs::parse, from position i of s: an ordered list of <<name, value>>
\* pairs for the forms key, key=value, key="quoted value" and
\* key='quoted value'; a key without a value gets the empty value.
RECURSIVE ParseFrom(_, _)
ParseFrom(s, i) ==
    LET k0 == ScanPast(s, i, Whitespace) IN
    IF k0 > Len(s) THEN <<>>
    ELSE
      LET k1 == ScanTo(s, k0, KeyEnd)
          key == SubSeq(s, k0, k1 - 1)
      IN
      IF k1 > Len(s) \/ s[k1] # "="
      THEN <<  <<key, <<>>>>  >> \o ParseFrom(s, k1)
      ELSE
        IF k1 + 1 <= Len(s) /\ s[k1 + 1] \in Quotes
        THEN
          LET q  == s[k1 + 1]
              v1 == ScanTo(s, k1 + 2, {q})
          IN << <<key, SubSeq(s, k1 + 2, v1 - 1)>> >> \o ParseFrom(s, v1 + 1)
        ELSE
          LET v1 == ScanTo(s, k1 + 1, Whitespace)
          IN << <<key, SubSeq(s, k1 + 1, v1 - 1)>> >> \o ParseFrom(s, v1)

attrs_parse(s) == ParseFrom(s, 1)

\* Iterator::find on the attribute list: the 1-based index of the first
\* entry named n, or 0 for None.
FindAttr(attr, n) ==
    IF \E i \in 1..Len(attr) : attr[i][1] = n
    THEN CHOOSE i \in 1..Len(attr) : attr[i][1] = n /\ \A j \in 1..(i - 1) : attr[j][1] # n
    ELSE 0

\* --------------------------------------------------------------- literals

S_version == <<"v", "e", "r", "s", "i", "o", "n">>

S_encoding == <<"e", "n", "c", "o", "d", "i", "n", "g">>

\* ------------------------------------------------------------ data model

\* enum Token
Start(name, attrs) == [kind |-> "Start", name |-> name, attrs |-> attrs]

End(name) == [kind |-> "End", name |-> name]

Closing(name, attrs) == [kind |-> "Closing", name |-> name, attrs |-> attrs]

DoctypeToken(d) == [kind |-> "Doctype", doctype |-> d]

CommentToken(c) == [kind |-> "Comment", text |-> c]

TextToken(t) == [kind |-> "Text", text |-> t]

\* enum Doctype
DoctypeHtml == [kind |-> "Html"]

DoctypeXml(v, e) == [kind |-> "Xml", version |-> v, encoding |-> e]

\* Result<Token, InnerHTMLParseError>, and the abort of the call by a panic.
Ok(t) == [kind |-> "Ok", token |-> t]

InvalidTag(t, r) == [kind |-> "Err", tag |-> t, reason |-> r]

Panic == [kind |-> "Panic"]

ReasonAllSpaces == "Tag name cannot be all spaces after \"<\""

ReasonNoVersion == "Cannot find version attribute in xml declaration"

ReasonNoEncoding == "Cannot find encoding attribute in xml declaration"

ReasonInvalid == "Invalid tag"

\* -------------------------------------------------------------- tokenizer

\* Token::from_comment
from_comment(comment) ==
    IF SliceOk(comment, 4, Len(comment) - 3)
    THEN Ok(CommentToken(Slice(comment, 4, Len(comment) - 3)))
    ELSE Panic

\* The self-closing branch of Token::from (tag ends with "/>").
FromClosing(t) ==
    LET n == Len(t) IN
    IF ~SliceOk(t, 1, n - 2) THEN Panic
    ELSE
      LET p == PositionNot(Chars(Slice(t, 1, n - 2)), Space) IN
      IF p = -1 THEN InvalidTag(t, ReasonAllSpaces)
      ELSE
        LET tag_name_start == p + 1 IN
        IF ~SliceOk(t, tag_name_start, n) THEN Panic
        ELSE
          LET q == Position(Chars(Slice(t, tag_name_start, n)), Space)
              tag_name_end == IF q # -1 THEN q + tag_name_start ELSE n - 2
          IN
          IF ~SliceOk(t, tag_name_start, tag_name_end) \/ ~SliceOk(t, tag_name_end, n - 2)
          THEN Panic
          ELSE Ok(Closing(Slice(t, tag_name_start, tag_name_end),
                          attrs_parse(trim(Slice(t, tag_name_end, n - 2)))))

\* The end-tag branch of Token::from (tag starts with "</").
FromEnd(t) ==
    IF SliceOk(t, 2, Len(t) - 1)
    THEN Ok(End(trim(Slice(t, 2, Len(t) - 1))))
    ELSE Panic

\* The XML-declaration branch of Token::from (tag starts with "<?").
FromXml(t) ==
    IF ~SliceOk(t, 2, Len(t) - 2) THEN Panic
    ELSE
      LET attr == attrs_parse(Slice(t, 2, Len(t) - 2))
          v    == FindAttr(attr, S_version)
          e    == FindAttr(attr, S_encoding)
      IN
      IF v = 0 THEN InvalidTag(t, ReasonNoVersion)
      ELSE IF e = 0 THEN InvalidTag(t, ReasonNoEncoding)
      ELSE Ok(DoctypeToken(DoctypeXml(attr[v][2], attr[e][2])))

\* The open-tag branch of Token::from (tag starts with "<").
FromStart(t) ==
    LET n == Len(t) IN
    IF ~SliceOk(t, 1, n - 1) THEN Panic
    ELSE
      LET p == PositionNot(Chars(Slice(t, 1, n - 1)), AsciiWhitespace) IN
      IF p = -1 THEN InvalidTag(t, ReasonAllSpaces)
      ELSE
        LET tag_name_start == p + 1 IN
        IF ~SliceOk(t, tag_name_start, n) THEN Panic
        ELSE
          LET q == Position(Chars(Slice(t, tag_name_start, n)), AsciiWhitespace)
              tag_name_end == IF q # -1 THEN q + tag_name_start ELSE n - 1
          IN
          IF ~SliceOk(t, tag_name_start, tag_name_end) \/ ~SliceOk(t, tag_name_end, n - 1)
          THEN Panic
          ELSE Ok(Start(Slice(t, tag_name_start, tag_name_end),
                        attrs_parse(trim(Slice(t, tag_name_end, n - 1)))))

\* Token::from with the "</" test ahead of the "/>" test.
Token_from_EndFirst(t) ==
    IF starts_with(t, <<"<", "/">>) THEN FromEnd(t)
    ELSE IF ends_with(t, <<"/", ">">>) THEN FromClosing(t)
    ELSE IF starts_with(t, <<"<", "!", "-", "-">>) THEN from_comment(t)
    ELSE IF starts_with(t, <<"<", "!">>) THEN Ok(DoctypeToken(DoctypeHtml))
    ELSE IF starts_with(t, <<"<", "?">>) THEN FromXml(t)
    ELSE IF starts_with(t, <<"<">>) THEN FromStart(t)
    ELSE InvalidTag(t, ReasonInvalid)

\* Token::from
Token_from(t) ==
    IF ends_with(t, <<"/", ">">>) THEN FromClosing(t)
    ELSE IF starts_with(t, <<"<", "/">>) THEN FromEnd(t)
    ELSE IF starts_with(t, <<"<", "!", "-", "-">>) THEN from_comment(t)
    ELSE IF starts_with(t, <<"<", "!">>) THEN Ok(DoctypeToken(DoctypeHtml))
    ELSE IF starts_with(t, <<"<", "?">>) THEN FromXml(t)
    ELSE IF starts_with(t, <<"<">>) THEN FromStart(t)
    ELSE InvalidTag(t, ReasonInvalid)

\* ------------------------------------------------- tokens to nodes

\* struct Element
Element(name, attrs, children) ==
    [name |-> name, attrs |-> attrs, children |-> children]

\* enum Node
NodeElement(e) == [kind |-> "Element", element |-> e]

NodeText(t) == [kind |-> "Text", text |-> t]

NodeComment(c) == [kind |-> "Comment", text |-> c]

NodeDoctype(d) == [kind |-> "Doctype", doctype |-> d]

NodeRawHTML(h) == [kind |-> "RawHTML", html |-> h]

\* Element::into_node
Element_into_node(e) == NodeElement(e)

\* Token::into_node
Token_into_node(self) ==
    CASE self.kind = "Start"   -> Element_into_node(Element(self.name, self.attrs, <<>>))
      [] self.kind = "End"     -> Element_into_node(Element(self.name, <<>>, <<>>))
      [] self.kind = "Closing" -> Element_into_node(Element(self.name, self.attrs, <<>>))
      [] self.kind = "Doctype" -> NodeDoctype(self.doctype)
      [] self.kind = "Comment" -> NodeComment(self.text)
      [] self.kind = "Text"    -> NodeText(self.text)

\* Token::node
Token_node(self) == Token_into_node(self)

\* Token::into_element with the Closing arm a copy of the End arm.
Token_into_element_NoAttrs(self) ==
    CASE self.kind = "Start"   -> Element(self.name, self.attrs, <<>>)
      [] self.kind = "End"     -> Element(self.name, <<>>, <<>>)
      [] self.kind = "Closing" -> Element(self.name, <<>>, <<>>)
      [] OTHER                 -> Panic

\* Token::into_element; Panic is panic!("Cannot convert token to element").
Token_into_element(self) ==
    CASE self.kind = "Start"   -> Element(self.name, self.attrs, <<>>)
      [] self.kind = "End"     -> Element(self.name, <<>>, <<>>)
      [] self.kind = "Closing" -> Element(self.name, self.attrs, <<>>)
      [] OTHER                 -> Panic

\* ------------------------------------------------------------- serializer

S_style == <<"s", "t", "y", "l", "e">>

S_script == <<"s", "c", "r", "i", "p", "t">>

S_img == <<"i", "m", "g">>

S_input == <<"i", "n", "p", "u", "t">>

S_br == <<"b", "r">>

S_div == <<"d", "i", "v">>

\* data::VOID_TAGS
VOID_TAGS == {S_img, S_input, S_br}

S_amp == <<"&", "a", "m", "p", ";">>

S_lt == <<"&", "l", "t", ";">>

S_gt == <<"&", "g", "t", ";">>

S_quot == <<"&", "q", "u", "o", "t", ";">>

\* html_escape::encode_text: escapes &, < and >.
RECURSIVE encode_text(_)
encode_text(s) ==
    IF s = <<>> THEN <<>>
    ELSE (CASE Head(s) = "&" -> S_amp
            [] Head(s) = "<" -> S_lt
            [] Head(s) = ">" -> S_gt
            [] OTHER         -> <<Head(s)>>) \o encode_text(Tail(s))

\* html_escape::encode_double_quoted_attribute: escapes & and ".
RECURSIVE encode_double_quoted_attribute(_)
encode_double_quoted_attribute(s) ==
    IF s = <<>> THEN <<>>
    ELSE (CASE Head(s) = "&"  -> S_amp
            [] Head(s) = "\"" -> S_quot
            [] OTHER          -> <<Head(s)>>) \o encode_double_quoted_attribute(Tail(s))

\* The attribute closure without the v.is_empty() test.
AttrHtml_NoBare(k, v) ==
    k \o <<"=", "\"">> \o encode_double_quoted_attribute(v) \o <<"\"">>

\* The closure of Element::html's attrs.iter().map(...).
AttrHtml(k, v) ==
    IF v = <<>> THEN k
    ELSE k \o <<"=", "\"">> \o encode_double_quoted_attribute(v) \o <<"\"">>

\* [String]::join
RECURSIVE Join(_, _)
Join(ss, sep) ==
    IF ss = <<>> THEN <<>>
    ELSE IF Len(ss) = 1 THEN ss[1]
    ELSE ss[1] \o sep \o Join(Tail(ss), sep)

\* Element::html's attrs: the mapped attributes joined by " ".
AttrsHtml(attrs) ==
    Join([i \in 1..Len(attrs) |-> AttrHtml(attrs[i][1], attrs[i][2])], <<" ">>)

S_doctype_html == <<"<", "!", "D", "O", "C", "T", "Y", "P", "E", " ", "h", "t", "m", "l", ">">>

S_xml_open == <<"<", "?", "x", "m", "l", " ", "v", "e", "r", "s", "i", "o", "n", "=", "\"">>

S_xml_mid == <<"\"", " ", "e", "n", "c", "o", "d", "i", "n", "g", "=", "\"">>

S_xml_close == <<"\"", "?", ">">>

RECURSIVE Element_html(_)
RECURSIVE Node_html(_)
RECURSIVE Vec_html(_)
RECURSIVE RawChildrenHtml(_)

\* The "style" | "script" arm rendering every child by Node::html.
RawChildrenHtml_Escaped(children) == Vec_html(children)

\* The "style" | "script" arm of Element::html: Text children pushed as they
\* are, the other children rendered by Node::html.
RawChildrenHtml(children) ==
    IF children = <<>> THEN <<>>
    ELSE (IF Head(children).kind = "Text"
          THEN Head(children).text
          ELSE Node_html(Head(children))) \o RawChildrenHtml(Tail(children))

\* Element::html with the VOID_TAGS test missing where attrs is not empty.
Element_html_VoidAttrs(self) ==
    LET children_html ==
          IF self.name = S_style \/ self.name = S_script
          THEN RawChildrenHtml(self.children)
          ELSE Vec_html(self.children)
    IN
    IF self.attrs = <<>>
    THEN IF self.name \in VOID_TAGS
         THEN <<"<">> \o self.name \o <<">">>
         ELSE <<"<">> \o self.name \o <<">">> \o children_html
                \o <<"<", "/">> \o self.name \o <<">">>
    ELSE <<"<">> \o self.name \o <<" ">> \o AttrsHtml(self.attrs) \o <<">">>
           \o children_html \o <<"<", "/">> \o self.name \o <<">">>

\* impl Htmlifiable for Element
Element_html(self) ==
    LET children_html ==
          IF self.name = S_style \/ self.name = S_script
          THEN RawChildrenHtml(self.children)
          ELSE Vec_html(self.children)
    IN
    IF self.attrs = <<>>
    THEN IF self.name \in VOID_TAGS
         THEN <<"<">> \o self.name \o <<">">>
         ELSE <<"<">> \o self.name \o <<">">> \o children_html
                \o <<"<", "/">> \o self.name \o <<">">>
    ELSE IF self.name \in VOID_TAGS
         THEN <<"<">> \o self.name \o <<" ">> \o AttrsHtml(self.attrs) \o <<">">>
         ELSE <<"<">> \o self.name \o <<" ">> \o AttrsHtml(self.attrs) \o <<">">>
                \o children_html \o <<"<", "/">> \o self.name \o <<">">>

\* impl Htmlifiable for Node
Node_html(self) ==
    CASE self.kind = "Element" -> Element_html(self.element)
      [] self.kind = "Text"    -> encode_text(self.text)
      [] self.kind = "Comment" -> <<"<", "!", "-", "-">> \o self.text \o <<"-", "-", ">">>
      [] self.kind = "Doctype" ->
           IF self.doctype.kind = "Html"
           THEN S_doctype_html
           ELSE S_xml_open \o self.doctype.version \o S_xml_mid
                  \o self.doctype.encoding \o S_xml_close
      [] self.kind = "RawHTML" -> self.html

\* Vec<Node>::html pushing each node's html in front of what it has.
Vec_html_Reversed(self) ==
    IF self = <<>> THEN <<>>
    ELSE Vec_html(Tail(self)) \o Node_html(Head(self))

\* impl Htmlifiable for Vec<Node>
Vec_html(self) ==
    IF self = <<>> THEN <<>>
    ELSE Node_html(Head(self)) \o Vec_html(Tail(self))

\* ----------------------------------------------------------------- inputs

Prefixes ==
    { <<>>, <<"<">>, <<"<", "/">>, <<"<", "!", "-", "-">>, <<"<", "!">>, <<"<", "?">> }

Suffixes ==
    { <<>>, <<">">>, <<"/", ">">>, <<"-", "-", ">">>, <<"?", ">">> }

P_version1 == <<" ">> \o S_version \o <<"=", "\"", "1", "\"">>

P_version2 == <<" ">> \o S_version \o <<"=", "\"", "2", "\"">>

P_encoding == <<" ">> \o S_encoding \o <<"=", "\"", "u", "\"">>

Pieces ==
    { <<" ">>, <<"\t">>, <<"a">>, <<"C3", "A9">>, <<"-">>, <<">">>,
      P_version1, P_version2, P_encoding }

RECURSIVE BodiesOf(_)
BodiesOf(k) ==
    IF k = 0 THEN { <<>> }
    ELSE LET B == BodiesOf(k - 1) IN B \cup { b \o p : b \in B, p \in Pieces }

\* The strings handed to Token::from.
Tags == { p \o b \o s : p \in Prefixes, b \in BodiesOf(MaxBody), s \in Suffixes }

RECURSIVE ListsOf(_, _)
ListsOf(S, k) ==
    IF k = 0 THEN { <<>> }
    ELSE LET L == ListsOf(S, k - 1) IN L \cup { Append(l, x) : l \in L, x \in S }

S_src == <<"s", "r", "c">>

S_defer == <<"d", "e", "f", "e", "r">>

S_index_js == <<"i", "n", "d", "e", "x", ".", "j", "s">>

AttrPairs ==
    { <<S_src, S_index_js>>, <<S_defer, <<>>>>, <<S_src, <<"\"", "&", "<">>>> }

AttrLists == ListsOf(AttrPairs, MaxAttrs)

T_text == <<"a", "<", "b", "&", ">", "\"">>

Leaves ==
    { NodeText(T_text),
      NodeComment(<<" ", "<", "&", " ">>),
      NodeDoctype(DoctypeHtml),
      NodeDoctype(DoctypeXml(<<"1">>, <<"u", "\"">>)),
      NodeRawHTML(<<"<", "b", ">", "&">>) }

InnerElements ==
    { Element(n, <<>>, c) : n \in {S_div, S_script, S_img},
                            c \in { <<>>, <<NodeText(T_text)>> } }

Kids == Leaves \cup { NodeElement(e) : e \in InnerElements }

ChildLists == ListsOf(Kids, MaxChildren)

Names == {S_div, S_img, S_script, S_style}

Elements ==
    { Element(n, a, c) : n \in Names, a \in AttrLists,
                         c \in { <<>>, <<NodeText(T_text)>> } }
      \cup
    { Element(n, a, c) : n \in Names,
                         a \in { <<>>, << <<S_src, S_index_js>>, <<S_defer, <<>>>> >> },
                         c \in ChildLists }

NodeInputs == Kids \cup { NodeElement(e) : e \in Elements }

TokenInputs ==
    { TextToken(T_text), CommentToken(<<" ", "<", "&", " ">>),
      DoctypeToken(DoctypeHtml), DoctypeToken(DoctypeXml(<<"1">>, <<"u">>)) }
      \cup { Start(n, a) : n \in Names, a \in AttrLists }
      \cup { Closing(n, a) : n \in Names, a \in AttrLists }
      \cup { End(n) : n \in Names }

\* ---------------------------------------------------------- state machine

None == [kind |-> "None"]

\* A token consumed by a by-value (self) method.
Moved == [kind |-> "Moved"]

InitTag ==
    /\ pc = "tag" /\ tag \in Tags
    /\ token = None /\ node = None /\ element = None /\ nodes = <<>>

InitToken ==
    /\ pc = "token" /\ tag = <<>>
    /\ token \in TokenInputs /\ node = None /\ element = None /\ nodes = <<>>

InitNode ==
    /\ pc = "node" /\ tag = <<>>
    /\ token = None /\ node \in NodeInputs /\ element = None /\ nodes = <<>>

InitElement ==
    /\ pc = "element" /\ tag = <<>>
    /\ token = None /\ node = None /\ element \in Elements /\ nodes = <<>>

InitVec ==
    /\ pc = "vec" /\ tag = <<>>
    /\ token = None /\ node = None /\ element = None /\ nodes \in ChildLists

Init ==
    /\ op = "none" /\ result = None /\ html = <<>>
    /\ (InitTag \/ InitToken \/ InitNode \/ InitElement \/ InitVec)

\* Token::from(tag)
From ==
    /\ pc = "tag"
    /\ result' = Token_from(tag)
    /\ token' = IF result'.kind = "Ok" THEN result'.token ELSE None
    /\ pc' = CASE result'.kind = "Ok"    -> "token"
               [] result'.kind = "Err"   -> "error"
               [] result'.kind = "Panic" -> "aborted"
    /\ op' = "from"
    /\ UNCHANGED <<tag, node, element, nodes, html>>

\* token.into_node()
IntoNode ==
    /\ pc = "token"
    /\ node' = Token_into_node(token)
    /\ token' = Moved
    /\ pc' = "node"
    /\ op' = "into_node"
    /\ UNCHANGED <<tag, result, element, nodes, html>>

\* token.node()
NodeOf ==
    /\ pc = "token"
    /\ node' = Token_node(token)
    /\ pc' = "node"
    /\ op' = "node"
    /\ UNCHANGED <<tag, result, token, element, nodes, html>>

\* token.into_element()
IntoElement ==
    /\ pc = "token"
    /\ LET e == Token_into_element(token) IN
         IF "kind" \in DOMAIN e
         THEN element' = None /\ pc' = "aborted"
         ELSE element' = e /\ pc' = "element"
    /\ token' = Moved
    /\ op' = "into_element"
    /\ UNCHANGED <<tag, result, node, nodes, html>>

\* node.html()
NodeHtml ==
    /\ pc = "node"
    /\ html' = Node_html(node)
    /\ pc' = "done"
    /\ op' = "Node_html"
    /\ UNCHANGED <<tag, result, token, node, element, nodes>>

\* element.html()
ElementHtml ==
    /\ pc = "element"
    /\ html' = Element_html(element)
    /\ pc' = "done"
    /\ op' = "Element_html"
    /\ UNCHANGED <<tag, result, token, node, element, nodes>>

\* nodes.html()
VecHtml ==
    /\ pc = "vec"
    /\ html' = Vec_html(nodes)
    /\ pc' = "done"
    /\ op' = "Vec_html"
    /\ UNCHANGED <<tag, result, token, node, element, nodes>>

Next ==
    \/ From
    \/ IntoNode
    \/ NodeOf
    \/ IntoElement
    \/ NodeHtml
    \/ ElementHtml
    \/ VecHtml

Spec == Init /\ [][Next]_vars

\* ----------------------------------------------------------------- claims

\* The strings of a list, one after the other.
RECURSIVE Concat(_)
Concat(ss) == IF ss = <<>> THEN <<>> ELSE Head(ss) \o Concat(Tail(ss))

\* Token::from has been applied to the state's tag.
Tokenized == result.kind # "None"

C1_Matches(i, t) ==
    CASE i = 1 -> ends_with(t, <<"/", ">">>)
      [] i = 2 -> starts_with(t, <<"<", "/">>)
      [] i = 3 -> starts_with(t, <<"<", "!", "-", "-">>)
      [] i = 4 -> starts_with(t, <<"<", "!">>)
      [] i = 5 -> starts_with(t, <<"<", "?">>)
      [] i = 6 -> starts_with(t, <<"<">>)

\* The first of the six rules that matches t, or 0.
C1_Rule(t) ==
    IF \E i \in 1..6 : C1_Matches(i, t)
    THEN CHOOSE i \in 1..6 : C1_Matches(i, t) /\ \A j \in 1..(i - 1) : ~C1_Matches(j, t)
    ELSE 0

C1_Variants == <<"Closing", "End", "Comment", "Html", "Xml", "Start">>

C1_Variant(tok) == IF tok.kind = "Doctype" THEN tok.doctype.kind ELSE tok.kind

\* The position of the last ">" of t, or 0.
C1_LastGt(t) ==
    IF \E i \in 1..Len(t) : t[i] = ">"
    THEN CHOOSE i \in 1..Len(t) : t[i] = ">" /\ \A j \in (i + 1)..Len(t) : t[j] # ">"
    ELSE 0

\* The rule order: a successful result has the variant of the first matching
\* rule, Doctype::Html carries nothing of the input, and an input matching
\* no rule is InvalidTag "Invalid tag".
C1_Order ==
    Tokenized =>
      /\ result.kind = "Ok" =>
           /\ C1_Rule(tag) # 0
           /\ C1_Variant(result.token) = C1_Variants[C1_Rule(tag)]
           /\ C1_Rule(tag) = 4 => result.token = DoctypeToken(DoctypeHtml)
      /\ C1_Rule(tag) = 0 => result = InvalidTag(tag, "Invalid tag")

\* C1 as stated: the rule order of Token::from, with the name of an End
\* token being the text between "</" and the final ">" of the input, trimmed.
C1_Original ==
    /\ C1_Order
    /\ (Tokenized /\ result.kind = "Ok" /\ result.token.kind = "End"
          /\ C1_LastGt(tag) > 2)
         => result.token.name = trim(SubSeq(tag, 3, C1_LastGt(tag) - 1))

\* C1, amended: a successful Token::from result has the variant of the first
\* of the six rules that matches, an input matching none is InvalidTag
\* "Invalid tag", and the name of an End token is the input without its
\* first two bytes and without its last byte, whatever that byte is, trimmed.
C1_Precedence ==
    /\ C1_Order
    /\ (Tokenized /\ result.kind = "Ok" /\ result.token.kind = "End")
         => result.token.name = trim(SubSeq(tag, 3, Len(tag) - 1))

\* An earlier rule has won over a later one: a tag that starts with "</" and
\* ends with "/>" became a Closing token.
C1_Witness ==
    /\ Tokenized /\ result.kind = "Ok"
    /\ starts_with(tag, <<"<", "/">>)
    /\ result.token.kind = "Closing"

C2_Open(e) ==
    IF e.attrs = <<>>
    THEN <<"<">> \o e.name \o <<">">>
    ELSE <<"<">> \o e.name \o <<" ">> \o AttrsHtml(e.attrs) \o <<">">>

C2_Children(e) ==
    IF e.name \in {S_style, S_script}
    THEN RawChildrenHtml(e.children)
    ELSE Vec_html(e.children)

\* C2: Element::html of an element named in VOID_TAGS is exactly <name> or
\* <name ATTRS>, whatever its children are, so it has no closing tag and no
\* child rendering; of any other element it is the opening tag, the children
\* and </name>.
C2_VoidTags ==
    op = "Element_html" =>
      IF element.name \in VOID_TAGS
      THEN /\ html = C2_Open(element)
           /\ html[Len(html)] = ">"
           /\ element.attrs = <<>> => Len(html) = Len(element.name) + 2
      ELSE html = C2_Open(element) \o C2_Children(element)
                    \o <<"<", "/">> \o element.name \o <<">">>

\* A void element with attributes and with children was rendered.
C2_Witness ==
    /\ op = "Element_html"
    /\ element.name \in VOID_TAGS
    /\ element.attrs # <<>>
    /\ element.children # <<>>

\* E(v): v with every " and & escaped.
C3_Escape(v) ==
    Concat([i \in 1..Len(v) |->
              IF v[i] = "\"" THEN S_quot
              ELSE IF v[i] = "&" THEN S_amp
              ELSE <<v[i]>>])

C3_Pair(k, v) == IF Len(v) = 0 THEN k ELSE k \o <<"=", "\"">> \o C3_Escape(v) \o <<"\"">>

\* The pairs in their order, one space between two neighbours.
C3_Attrs(attrs) ==
    Concat([i \in 1..Len(attrs) |->
              (IF i = 1 THEN <<>> ELSE <<" ">>) \o C3_Pair(attrs[i][1], attrs[i][2])])

C3_Count(s, c) == Cardinality({i \in 1..Len(s) : s[i] = c})

S_script_example ==
    <<"<", "s", "c", "r", "i", "p", "t", " ", "s", "r", "c", "=", "\"",
      "i", "n", "d", "e", "x", ".", "j", "s", "\"", " ", "d", "e", "f", "e", "r", ">",
      "<", "/", "s", "c", "r", "i", "p", "t", ">">>

\* C3: with a non-empty attrs list the output of Element::html opens with
\* <name, one space, the attributes in their order joined by one space (a
\* bare name for an empty value, name="escaped value" otherwise) and >; when
\* no name holds a double quote, the only double quotes of the attribute part
\* are the two around each non-empty value; script with src="index.js" and defer renders exactly
\* <script src="index.js" defer></script>.
C3_Attributes ==
    (op = "Element_html" /\ element.attrs # <<>>) =>
      LET open == <<"<">> \o element.name \o <<" ">> \o C3_Attrs(element.attrs) \o <<">">>
          nonEmpty == {i \in 1..Len(element.attrs) : element.attrs[i][2] # <<>>}
      IN /\ starts_with(html, open)
         /\ (\A i \in 1..Len(element.attrs) : C3_Count(element.attrs[i][1], "\"") = 0)
              => C3_Count(SubSeq(html, Len(element.name) + 3, Len(open) - 1), "\"")
                   = 2 * Cardinality(nonEmpty)
         /\ (element = Element(S_script, << <<S_src, S_index_js>>, <<S_defer, <<>>>> >>, <<>>))
              => html = S_script_example

\* An element with a repeated attribute name, one value of which holds a
\* double quote and an ampersand, was rendered.
C3_Witness ==
    /\ op = "Element_html"
    /\ Len(element.attrs) = 2
    /\ element.attrs[1][1] = element.attrs[2][1]
    /\ element.attrs[1][2] # element.attrs[2][2]
    /\ \E i \in 1..2 : C3_Count(element.attrs[i][2], "\"") > 0

\* A Text node's entity escaping.
C4_Escape(t) ==
    Concat([i \in 1..Len(t) |->
              IF t[i] = "<" THEN S_lt
              ELSE IF t[i] = ">" THEN S_gt
              ELSE IF t[i] = "&" THEN S_amp
              ELSE <<t[i]>>])

C4_IsRaw(name) == name = S_style \/ name = S_script

\* A child element that is neither script/style nor void, without
\* attributes and with Text children only.
C4_PlainChild(n) ==
    /\ n.kind = "Element"
    /\ ~C4_IsRaw(n.element.name)
    /\ n.element.name \notin VOID_TAGS
    /\ n.element.attrs = <<>>
    /\ \A i \in 1..Len(n.element.children) : n.element.children[i].kind = "Text"

C4_ChildHtml(raw, n) ==
    IF n.kind = "Text" THEN (IF raw THEN n.text ELSE C4_Escape(n.text))
    ELSE IF C4_PlainChild(n)
    THEN <<"<">> \o n.element.name \o <<">">>
           \o Concat([i \in 1..Len(n.element.children) |->
                        C4_Escape(n.element.children[i].text)])
           \o <<"<", "/">> \o n.element.name \o <<">">>
    ELSE Node_html(n)

\* C4: in the output of Element::html for style and script every direct
\* Text child stands unescaped and every other child as Node::html renders
\* it, a Text nested in a plain child element being escaped; for any other
\* element that renders children, every Text child is escaped.
C4_RawText ==
    (op = "Element_html" /\ element.name \notin VOID_TAGS) =>
      html = C2_Open(element)
               \o Concat([i \in 1..Len(element.children) |->
                            C4_ChildHtml(C4_IsRaw(element.name), element.children[i])])
               \o <<"<", "/">> \o element.name \o <<">">>

\* A script element with a direct Text child and with a plain child element
\* holding a Text was rendered.
C4_Witness ==
    /\ op = "Element_html"
    /\ element.name = S_script
    /\ \E i \in 1..Len(element.children) : element.children[i].kind = "Text"
    /\ \E i \in 1..Len(element.children) :
          /\ C4_PlainChild(element.children[i])
          /\ element.children[i].element.children # <<>>

\* C5: a tag that starts with <!-- and ends with --> tokenizes to the Comment
\* of the input without its first 4 and last 3 characters, and the html of
\* that token's node is the input.
C5_RoundTrip ==
    (Tokenized /\ starts_with(tag, <<"<", "!", "-", "-">>)
       /\ ends_with(tag, <<"-", "-", ">">>)) =>
      /\ result = Ok(CommentToken(SubSeq(tag, 5, Len(tag) - 3)))
      /\ op = "Node_html" => html = tag

C6_Interior(t) == attrs_parse(SubSeq(t, 3, Len(t) - 2))

C6_Has(attr, n) == \E i \in 1..Len(attr) : attr[i][1] = n

C6_First(attr, n) ==
    attr[CHOOSE i \in 1..Len(attr) : attr[i][1] = n /\ \A j \in 1..(i - 1) : attr[j][1] # n][2]

\* C6: a tag that starts with <? and does not end with /> tokenizes to
\* Doctype::Xml, with the first version and the first encoding value, when the
\* parsed attribute list has both names, and otherwise to InvalidTag with the
\* input and a reason naming a missing attribute.  Stated for the complete
\* <...> substrings, those that end with ">".
C6_XmlDecl ==
    (Tokenized /\ starts_with(tag, <<"<", "?">>) /\ ends_with(tag, <<">">>)
       /\ ~ends_with(tag, <<"/", ">">>)) =>
      LET attr == C6_Interior(tag) IN
      IF C6_Has(attr, S_version) /\ C6_Has(attr, S_encoding)
      THEN result = Ok(DoctypeToken(DoctypeXml(C6_First(attr, S_version),
                                               C6_First(attr, S_encoding))))
      ELSE /\ result.kind = "Err"
           /\ result.tag = tag
           /\ result.reason = ReasonNoVersion => ~C6_Has(attr, S_version)
           /\ result.reason = ReasonNoEncoding => ~C6_Has(attr, S_encoding)
           /\ result.reason \in {ReasonNoVersion, ReasonNoEncoding}

C7_IsWs(c) == c \in {" ", "\t", "\n"}

\* The text after "<" up to the closing "/>" or ">".
C7_Region(t) ==
    IF ends_with(t, <<"/", ">">>) THEN SubSeq(t, 2, Len(t) - 2) ELSE SubSeq(t, 2, Len(t) - 1)

\* The tag is a self-closing or an open tag: rule 1, or rule 6 with a
\* closing ">".
C7_Applies(t) ==
    /\ starts_with(t, <<"<">>)
    /\ ends_with(t, <<">">>)
    /\ C1_Rule(t) \in {1, 6}

\* C7: a self-closing or open tag whose name region is empty or whitespace
\* only is InvalidTag "Tag name cannot be all spaces after "<""; the name of
\* the Start or Closing token of such a tag is non-empty and free of
\* whitespace.  Stated for the complete <...> substrings.
C7_AllSpaces ==
    (Tokenized /\ C7_Applies(tag)) =>
      /\ (\A i \in 1..Len(C7_Region(tag)) : C7_IsWs(C7_Region(tag)[i]))
           => result = InvalidTag(tag, ReasonAllSpaces)
      /\ (result.kind = "Ok" /\ result.token.kind \in {"Start", "Closing"})
           => /\ result.token.name # <<>>
              /\ \A i \in 1..Len(result.token.name) : ~C7_IsWs(result.token.name[i])

\* C8: Vec<Node>::html is the concatenation of Node::html of the members in
\* their order; Element::html, Node::html of the element's node and
\* Vec<Node>::html of the one-member list agree; Comment, RawHTML and Doctype
\* render as <!--c-->, h, <!DOCTYPE html> and the xml declaration with the
\* version and the encoding as they are.
C8_Agree ==
    /\ op = "Vec_html" =>
         html = Concat([i \in 1..Len(nodes) |-> Node_html(nodes[i])])
    /\ op = "Element_html" =>
         /\ html = Node_html(NodeElement(element))
         /\ html = Vec_html(<<NodeElement(element)>>)
    /\ op = "Node_html" =>
         /\ html = Vec_html(<<node>>)
         /\ node.kind = "Element" => html = Element_html(node.element)
         /\ node.kind = "Comment" =>
              html = <<"<", "!", "-", "-">> \o node.text \o <<"-", "-", ">">>
         /\ node.kind = "RawHTML" => html = node.html
         /\ (node.kind = "Doctype" /\ node.doctype.kind = "Html") =>
              html = <<"<", "!", "D", "O", "C", "T", "Y", "P", "E", " ", "h", "t", "m", "l", ">">>
         /\ (node.kind = "Doctype" /\ node.doctype.kind = "Xml") =>
              html = <<"<", "?", "x", "m", "l", " ">> \o S_version \o <<"=", "\"">>
                       \o node.doctype.version \o <<"\"", " ">> \o S_encoding
                       \o <<"=", "\"">> \o node.doctype.encoding \o <<"\"", "?", ">">>

\* A list of two different nodes, the first an element, was rendered.
C8_Witness ==
    /\ op = "Vec_html"
    /\ Len(nodes) = 2
    /\ nodes[1] # nodes[2]
    /\ nodes[1].kind = "Element"

\* C9: Token::from ends in a Token or in an InvalidTag that carries the
\* input; it never aborts.
C9_Total ==
    Tokenized =>
      /\ result.kind \in {"Ok", "Err"}
      /\ result.kind = "Err" => result.tag = tag

C10_IsElementToken(t) == t.kind \in {"Start", "End", "Closing"}

C10_Element(t) ==
    [name |-> t.name,
     attrs |-> IF t.kind = "End" THEN <<>> ELSE t.attrs,
     children |-> <<>>]

C10_IntoElementStep ==
    (pc = "token" /\ op' = "into_element") =>
      IF C10_IsElementToken(token)
      THEN pc' = "element" /\ element' = C10_Element(token)
      ELSE pc' = "aborted" /\ element' = element

C10_IntoNodeStep ==
    (pc = "token" /\ op' \in {"into_node", "node"}) =>
      /\ C10_IsElementToken(token) =>
           /\ node' = NodeElement(C10_Element(token))
           /\ node' = NodeElement(Token_into_element(token))
      /\ token.kind = "Doctype" => node' = NodeDoctype(token.doctype)
      /\ token.kind = "Comment" => node' = NodeComment(token.text)
      /\ token.kind = "Text" => node' = NodeText(token.text)
      /\ op' = "node" => token' = token

\* C10: into_element of a Start, Closing or End token is the element of its
\* name and attributes (none for End) without children, and aborts for the
\* other tokens; into_node is that element's node, or the leaf node of the
\* token's payload; node() gives what into_node gives and keeps the token.
C10_Conversion == [][C10_IntoElementStep /\ C10_IntoNodeStep]_vars

\* node() was called on a Start token with attributes, which is still there.
C10_Witness ==
    /\ op = "node"
    /\ token.kind = "Start"
    /\ token.attrs # <<>>
    /\ node.kind = "Element"

====
